---- MODULE Spec2Model ----
(***************************************************************************)
(* Verification model of netrender/utils.py: the interruptible backoff     *)
(* sleeper (BreakableIncrementedSleep), the reporting helper, the          *)
(* process-wide socket timeout guard (ConnectionContext) and the client    *)
(* connection / version handshake (clientScan, clientConnection,           *)
(* clientVerifyVersion).                                                   *)
(***************************************************************************)
EXTENDS Integers, Sequences, FiniteSets, TLC

(* ------------------------------ bounds -------------------------------- *)

\* durations 0..MaxDur are tried for increment, default_timeout, max_timeout
MaxDur == 3
\* number of increase() calls followed without a reset()
MaxRun == 5

\* the durations of the documented example (default=5, increment=5, max=20)
ExampleDurations == {5, 20}

Durations == (0..MaxDur) \cup ExampleDurations

Min(a, b) == IF a <= b THEN a ELSE b

(* ------------------- BreakableIncrementedSleep state ------------------ *)

VARIABLES
    increment,   \* self.increment
    default,     \* self.default
    max,         \* self.max
    current,     \* self.current
    break_fct,   \* what self.break_fct() returns if evaluated now
    spc,         \* position inside sleep(): "idle", "loop", "check", "exit"
    i,           \* loop variable of `for i in range(...)`
    rng,         \* the bound of range(self.current), evaluated once at loop entry
    lastOp,      \* last completed method: "init", "reset", "increase", "sleep"
    run,         \* values of current since construction or the last reset()
    slept,       \* units of time.sleep(1) completed by the running sleep()
    checks,      \* evaluations of break_fct made by the running sleep()
    late,        \* units completed by the running sleep() since break_fct became true
    sawBreak,    \* the running sleep() evaluated break_fct as true
    incs,        \* increase() calls made by the running / last sleep()
    prevRng      \* range bound of the previous sleep() (-1: none since reset/increase)

bvars == <<increment, default, max, current, break_fct, spc, i, rng, lastOp, run,
           slept, checks, late, sawBreak, incs, prevRng>>

(* per call of reporting() *)
VARIABLES
    r_report,     \* last call: a sink was passed
    r_message,    \* last call: message
    r_errorType,  \* last call: errorType
    r_before,     \* what the sink had received before the last call
    r_sink,       \* everything the sink has received
    r_raised,     \* exception raised by the last call (NoExc: it returned None)
    r_calls       \* number of calls made

rvars == <<r_report, r_message, r_errorType, r_before, r_sink, r_raised, r_calls>>

(* clientConnection and the process-wide socket timeout *)
VARIABLES
    system,          \* platform.system(): "Darwin" or another OS
    defaulttimeout,  \* socket.getdefaulttimeout(), process-wide
    default0,        \* the process-wide default timeout before any attempt
    threads,         \* the threads that call clientConnection
    th               \* per thread: arguments, locals and position

cvars == <<system, defaulttimeout, default0, threads, th>>

(* one call of clientScan(report) at a time *)
VARIABLES
    sc_pc,        \* "idle", "bound" (socket bound), "received", "done"
    sc_report,    \* a sink was passed
    sc_recv,      \* what recvfrom did
    sc_recvs,     \* recvfrom calls made by the running call
    sc_result,    \* what the call returned or raised
    sc_sink,      \* everything the sink has received
    sc_connects,  \* a caller applying the test of line 203 goes on to connect
    sc_calls      \* calls made

svars == <<sc_pc, sc_report, sc_recv, sc_recvs, sc_result, sc_sink, sc_connects,
           sc_calls>>

(* the master's frames of one job and the workers' leases *)
VARIABLES
    fr_status,    \* per frame: FRAME_QUEUED, FRAME_DISPATCHED, FRAME_DONE, FRAME_ERROR
    fr_leases     \* per worker: the frames dispatched to it

fvars == <<fr_status, fr_leases>>

(* URLs built so far *)
VARIABLES
    url_calls     \* the calls made: template, job_id, index and the URL returned

uvars == <<url_calls>>

(* the process working directory and the DirectoryContext objects *)
VARIABLES
    cwd,          \* the process working directory
    dc_path,      \* per DirectoryContext: self.path
    dc_curdir,    \* per DirectoryContext: self.curdir ("" before the first entry)
    dc_stack,     \* the `with` blocks being executed, innermost last: the object,
                  \* the working directory when the block was entered, and whether
                  \* the object was entered again inside the block
    dc_exited     \* the last step left a block: that block's entry of dc_stack

dvars == <<cwd, dc_path, dc_curdir, dc_stack, dc_exited>>

(* prefixPath: its host, its arguments and the file system it sees *)
VARIABLES
    pp_host,      \* the os.path flavour of the host: "posix" or "nt"
    pp_args,      \* prefix_directory, file_path, prefix_path, force
    pp_dirs,      \* the existing directories, as absolute normalised paths
    pp_files,     \* the existing files, as absolute normalised paths
    pp_calls,     \* the outcomes of the prefixPath calls made, in order
    pp_made       \* the file was created at the path the first call returned

pvars == <<pp_host, pp_args, pp_dirs, pp_files, pp_calls, pp_made>>

\* the state outside the four components above
xvars == <<svars, fvars, uvars, dvars, pvars>>

\* __init__ (lines 126-131): current starts at default, whatever max is
BackoffInit ==
    /\ increment \in Durations
    /\ default \in Durations
    /\ max \in Durations
    /\ current = default
    /\ break_fct \in BOOLEAN
    /\ spc = "idle"
    /\ i = 0
    /\ rng = 0
    /\ lastOp = "init"
    /\ run = <<default>>
    /\ slept = 0
    /\ checks = 0
    /\ late = 0
    /\ sawBreak = FALSE
    /\ incs = 0
    /\ prevRng = -1

\* the backoff object when no sleeper is under study
BackoffIdle ==
    /\ increment = 0
    /\ default = 0
    /\ max = 0
    /\ current = 0
    /\ break_fct = FALSE
    /\ spc = "idle"
    /\ i = 0
    /\ rng = 0
    /\ lastOp = "init"
    /\ run = <<0>>
    /\ slept = 0
    /\ checks = 0
    /\ late = 0
    /\ sawBreak = FALSE
    /\ incs = 0
    /\ prevRng = -1

\* a plausible slip: the cap on max is forgotten
increase_nocap(cur, inc, mx) == cur + inc

\* a plausible slip: the step is subtracted
increase_down(cur, inc, mx) == Min(IF cur >= inc THEN cur - inc ELSE 0, mx)

\* increase() (line 137): the new value of self.current
increase(cur, inc, mx) == Min(cur + inc, mx)

\* reset() (lines 133-134), called between sleeps
Reset ==
    /\ spc = "idle"
    /\ current' = default
    /\ lastOp' = "reset"
    /\ run' = <<default>>
    /\ prevRng' = -1
    /\ UNCHANGED <<increment, default, max, break_fct, spc, i, rng, slept, checks,
                   late, sawBreak, incs,
                   cvars, rvars, xvars>>

\* increase() (lines 136-137), called directly between sleeps
Increase ==
    /\ spc = "idle"
    /\ Len(run) < MaxRun
    /\ current' = increase(current, increment, max)
    /\ lastOp' = "increase"
    /\ run' = Append(run, current')
    /\ prevRng' = -1
    /\ UNCHANGED <<increment, default, max, break_fct, spc, i, rng, slept, checks,
                   late, sawBreak, incs,
                   cvars, rvars, xvars>>

\* sleep() is entered: range(self.current) is evaluated (line 140)
SleepBegin ==
    /\ spc = "idle"
    /\ Len(run) < MaxRun
    /\ spc' = "loop"
    /\ i' = 0
    /\ rng' = current
    /\ prevRng' = IF lastOp = "sleep" THEN rng ELSE -1
    /\ slept' = 0
    /\ checks' = 0
    /\ late' = 0
    /\ sawBreak' = FALSE
    /\ incs' = 0
    /\ UNCHANGED <<increment, default, max, current, break_fct, lastOp, run,
                   cvars, rvars, xvars>>

\* one time.sleep(1) elapses (line 141)
SleepUnit ==
    /\ spc = "loop"
    /\ i < rng
    /\ slept' = slept + 1
    /\ late' = IF break_fct THEN late + 1 ELSE late
    /\ spc' = "check"
    /\ UNCHANGED <<increment, default, max, current, break_fct, i, rng, lastOp, run,
                   checks, sawBreak, incs, prevRng,
                   cvars, rvars, xvars>>

\* a plausible slip: the predicate is only looked at on every second unit
SleepCheckEveryOther ==
    /\ spc = "check"
    /\ checks' = checks + 1
    /\ IF break_fct /\ i % 2 = 1
       THEN /\ sawBreak' = TRUE
            /\ spc' = "exit"
            /\ i' = i
       ELSE /\ sawBreak' = FALSE
            /\ spc' = "loop"
            /\ i' = i + 1
    /\ UNCHANGED <<increment, default, max, current, break_fct, rng, lastOp, run,
                   slept, late, incs, prevRng,
                   cvars, rvars, xvars>>

\* `if self.break_fct(): break` (lines 142-143), then the next iteration
SleepCheck ==
    /\ spc = "check"
    /\ checks' = checks + 1
    /\ IF break_fct
       THEN /\ sawBreak' = TRUE
            /\ spc' = "exit"
            /\ i' = i
       ELSE /\ sawBreak' = FALSE
            /\ spc' = "loop"
            /\ i' = i + 1
    /\ UNCHANGED <<increment, default, max, current, break_fct, rng, lastOp, run,
                   slept, late, incs, prevRng,
                   cvars, rvars, xvars>>

\* the range is exhausted: the loop ends without a break (line 140)
SleepLoopEnd ==
    /\ spc = "loop"
    /\ i = rng
    /\ spc' = "exit"
    /\ UNCHANGED <<increment, default, max, current, break_fct, i, rng, lastOp, run,
                   slept, checks, late, sawBreak, incs, prevRng,
                   cvars, rvars, xvars>>

\* a plausible slip: increase() is only reached when the loop was not broken
SleepExitUnlessBroken ==
    /\ spc = "exit"
    /\ current' = IF sawBreak THEN current ELSE increase(current, increment, max)
    /\ incs' = IF sawBreak THEN incs ELSE incs + 1
    /\ run' = Append(run, current')
    /\ lastOp' = "sleep"
    /\ spc' = "idle"
    /\ UNCHANGED <<increment, default, max, break_fct, i, rng, slept, checks, late,
                   sawBreak, prevRng,
                   cvars, rvars, xvars>>

\* `self.increase()` after the loop (line 145), then sleep() returns
SleepExit ==
    /\ spc = "exit"
    /\ current' = increase(current, increment, max)
    /\ incs' = incs + 1
    /\ run' = Append(run, current')
    /\ lastOp' = "sleep"
    /\ spc' = "idle"
    /\ UNCHANGED <<increment, default, max, break_fct, i, rng, slept, checks, late,
                   sawBreak, prevRng,
                   cvars, rvars, xvars>>

\* the caller's predicate becomes true (e.g. cancellation is requested)
BreakSet ==
    /\ ~break_fct
    /\ break_fct' = TRUE
    /\ UNCHANGED <<increment, default, max, current, spc, i, rng, lastOp, run,
                   slept, checks, late, sawBreak, incs, prevRng,
                   cvars, rvars, xvars>>

\* the caller's predicate becomes false again
BreakClear ==
    /\ break_fct
    /\ break_fct' = FALSE
    /\ late' = 0
    /\ UNCHANGED <<increment, default, max, current, spc, i, rng, lastOp, run,
                   slept, checks, sawBreak, incs, prevRng,
                   cvars, rvars, xvars>>

(* ----------------------------- reporting ------------------------------ *)

\* number of reporting() calls followed
MaxCalls == 3

\* errorType values: None, or an exception class
NoError == "None"
ErrorTypes == {NoError, "IOError", "ValueError"}

Messages == {"Master server found", "No master server on network",
             "Incorrect master version"}

\* no exception pending
NoExc == [type |-> NoError, message |-> ""]

\* a plausible slip: the severity test is inverted
reporting_swapped(report, message, errorType) ==
    LET t == IF errorType # NoError THEN "INFO" ELSE "ERROR"
    IN  IF report
        THEN [delivered |-> << <<{t}, message>> >>, raised |-> NoExc]
        ELSE IF errorType # NoError
             THEN [delivered |-> <<>>,
                   raised |-> [type |-> errorType, message |-> message]]
             ELSE [delivered |-> <<>>, raised |-> NoExc]

\* reporting(report, message, errorType) (lines 154-166): what the sink receives
\* and the exception raised; `report` is the truth value of the sink argument
reporting(report, message, errorType) ==
    LET t == IF errorType # NoError THEN "ERROR" ELSE "INFO"
    IN  IF report
        THEN [delivered |-> << <<{t}, message>> >>, raised |-> NoExc]
        ELSE IF errorType # NoError
             THEN [delivered |-> <<>>,
                   raised |-> [type |-> errorType, message |-> message]]
             ELSE [delivered |-> <<>>, raised |-> NoExc]


ReportIdle ==
    /\ r_report = FALSE
    /\ r_message = "Master server found"
    /\ r_errorType = NoError
    /\ r_before = <<>>
    /\ r_sink = <<>>
    /\ r_raised = NoExc
    /\ r_calls = 0

ReportInit == ReportIdle

\* one call of reporting() with any arguments
ReportCall ==
    /\ r_calls < MaxCalls
    /\ \E rep \in BOOLEAN, msg \in Messages, et \in ErrorTypes :
          LET r == reporting(rep, msg, et)
          IN  /\ r_report' = rep
              /\ r_message' = msg
              /\ r_errorType' = et
              /\ r_before' = r_sink
              /\ r_sink' = r_sink \o r.delivered
              /\ r_raised' = r.raised
              /\ r_calls' = r_calls + 1
    /\ UNCHANGED <<bvars, cvars, xvars>>

(* ------------------- connection / version handshake ------------------- *)

\* threads that may run clientConnection at the same time
NThreads == 2
\* socket timeouts 1..MaxTimeout seconds are tried, besides None
MaxTimeout == 2
\* longest /version response body tried
MaxPayload == 3

\* Python's None as a timeout value (the default of ConnectionContext's argument)
NoTimeout == -1
\* socket._GLOBAL_DEFAULT_TIMEOUT: "take the process-wide default when connecting"
GlobalDefault == -2
\* http.client.OK
OK == 200
\* an HTTP status other than OK
NOT_FOUND == 404
\* the port clientScan binds and falls back to
DEFAULT_PORT == 8000

Threads == 1..NThreads
Timeouts == {NoTimeout} \cup (1..MaxTimeout)

\* bytes tried in response bodies: "1", ".", and 0xFF (never valid in UTF-8)
PayloadBytes == {49, 46, 255}
Payloads == UNION {[1..n -> PayloadBytes] : n \in 0..MaxPayload}

\* VERSION (line 31): the dotted add-on version as bytes; "1.1" stands for it
VERSION == <<49, 46, 49>>

\* datagrams tried by discovery: "80", "8", "x", 0xFF
ScanBufs == {<<56, 48>>, <<56>>, <<120>>, <<255>>}

\* str(b, encoding='utf8') succeeds; exact for ASCII bytes and 0xFF
Utf8Decodable(b) == \A k \in 1..Len(b) : b[k] < 128

\* int(s) succeeds on decimal digits; exact for strings of digits and letters
IsInt(b) == Len(b) > 0 /\ \A k \in 1..Len(b) : b[k] \in 48..57

RECURSIVE IntOf(_)
\* int(s) for a string of decimal digits
IntOf(b) == IF Len(b) = 0 THEN 0
            ELSE 10 * IntOf(SubSeq(b, 1, Len(b) - 1)) + (b[Len(b)] - 48)

\* what s.recvfrom(64) does within the 30 s window (line 176)
Recvs == {[kind |-> "timeout", address |-> "", buf |-> <<>>]}
         \cup {[kind |-> "packet", address |-> "master", buf |-> b] : b \in ScanBufs}

\* clientScan(report) (lines 168-187) for one outcome of recvfrom
clientScan(report, recv) ==
    IF recv.kind = "timeout"
    THEN LET r == reporting(report, "No master server on network", "IOError")
         IN  [raised |-> r.raised, address |-> "", port |-> DEFAULT_PORT,
              delivered |-> r.delivered]
    ELSE IF ~Utf8Decodable(recv.buf)
    THEN [raised |-> [type |-> "UnicodeDecodeError", message |-> "invalid start byte"],
          address |-> "", port |-> 0, delivered |-> <<>>]
    ELSE IF ~IsInt(recv.buf)
    THEN [raised |-> [type |-> "ValueError", message |-> "invalid literal for int()"],
          address |-> "", port |-> 0, delivered |-> <<>>]
    ELSE LET r == reporting(report, "Master server found", NoError)
         IN  [raised |-> r.raised, address |-> recv.address, port |-> IntOf(recv.buf),
              delivered |-> r.delivered]

\* ConnectionContext.__enter__ (lines 73-75, 85-86): the process-wide default
\* timeout afterwards
ctx_enter(sys, old, tmo, cur) ==
    IF sys = "Darwin" /\ old # tmo THEN tmo ELSE cur

\* a plausible slip: __exit__ never puts the old timeout back
ctx_exit_skip(sys, old, tmo, cur) == cur

\* ConnectionContext.__exit__ (lines 76-78, 88-89): the process-wide default
\* timeout afterwards
ctx_exit(sys, old, tmo, cur) ==
    IF sys = "Darwin" /\ old # tmo THEN old ELSE cur


\* a thread before its call of clientConnection(netsettings, report, scan, timeout)
ThreadStart(addr, rep, sc, tmo) ==
    [pc |-> "call",
     server_address |-> addr,        \* netsettings.server_address
     report |-> rep,                 \* a sink was passed
     scan |-> sc,
     timeout |-> tmo,
     address |-> addr,               \* local `address`
     port |-> DEFAULT_PORT,          \* local `port`
     old_timeout |-> NoTimeout,      \* ConnectionContext.old_timeout
     ctx_timeout |-> NoTimeout,      \* ConnectionContext.timeout
     conn |-> "none",                \* "none", "created", "open", "closed"
     conn_timeout |-> NoTimeout,     \* conn.timeout: a value, or GlobalDefault
     sock_timeout |-> NoTimeout,     \* timeout in effect when the socket connected
     status |-> 0,                   \* response.status (0: no response)
     server_version |-> <<>>,        \* response.read()
     read |-> FALSE,                 \* the body was read
     exc |-> NoExc,                  \* exception in flight
     verified |-> FALSE,             \* result of clientVerifyVersion
     result |-> "running",           \* "running", "conn", "None", "raised"
     sink |-> <<>>,                  \* what the report sink received
     failure |-> "none",             \* "NoMasterFound", "ConnectionError", "VersionMismatch"
     scans |-> 0,                    \* clientScan calls
     opens |-> 0]                    \* transport connections opened

ThreadOff == [ThreadStart("host", FALSE, TRUE, NoTimeout) EXCEPT !.pc = "off"]

ClientIdle ==
    /\ system = "Linux"
    /\ defaulttimeout = NoTimeout
    /\ default0 = NoTimeout
    /\ threads = {}
    /\ th = [t \in Threads |-> ThreadOff]

Addresses == {"[default]", "host"}

\* one caller, any arguments, either platform
ClientInit ==
    /\ system \in {"Darwin", "Linux"}
    /\ defaulttimeout \in Timeouts
    /\ default0 = defaulttimeout
    /\ threads = {1}
    /\ \E addr \in Addresses, rep \in BOOLEAN, sc \in BOOLEAN, tmo \in Timeouts :
          th = [t \in Threads |-> IF t = 1 THEN ThreadStart(addr, rep, sc, tmo)
                                  ELSE ThreadOff]

\* several callers with an explicit address on the platform with the override
ConcInit ==
    /\ system = "Darwin"
    /\ defaulttimeout \in Timeouts
    /\ default0 = defaulttimeout
    /\ threads = Threads
    /\ th \in [Threads -> {ThreadStart("host", FALSE, TRUE, tmo) : tmo \in Timeouts}]

\* thread t's record becomes r
Set(t, r) == th' = [th EXCEPT ![t] = r]

\* `return None` / `return conn` / an exception leaving clientConnection
Return(r, res) == [r EXCEPT !.pc = "done", !.result = res]

\* line 203: `if address == "": return None`
AddressUsable(address) == address # ""

(* ----------------------- clientScan on its own ------------------------ *)

\* no call made, nothing received
NoResult == [raised |-> NoExc, address |-> "", port |-> 0, delivered |-> <<>>]

ScanIdle ==
    /\ sc_pc = "idle"
    /\ sc_report = FALSE
    /\ sc_recv = [kind |-> "timeout", address |-> "", buf |-> <<>>]
    /\ sc_recvs = 0
    /\ sc_result = NoResult
    /\ sc_sink = <<>>
    /\ sc_connects = FALSE
    /\ sc_calls = 0

\* lines 168-174: clientScan(report) is called; the socket is made and bound
ScanCall ==
    /\ sc_pc \in {"idle", "done"}
    /\ sc_calls < MaxCalls
    /\ sc_report' \in BOOLEAN
    /\ sc_pc' = "bound"
    /\ sc_recvs' = 0
    /\ sc_result' = NoResult
    /\ sc_connects' = FALSE
    /\ sc_calls' = sc_calls + 1
    /\ UNCHANGED <<sc_recv, sc_sink, bvars, cvars, rvars, fvars, uvars, dvars, pvars>>

\* line 176: `buf, address = s.recvfrom(64)` returns or times out after 30 s
ScanRecv ==
    /\ sc_pc = "bound"
    /\ sc_recv' \in Recvs
    /\ sc_recvs' = sc_recvs + 1
    /\ sc_pc' = "received"
    /\ UNCHANGED <<sc_report, sc_result, sc_sink, sc_connects, sc_calls,
                   bvars, cvars, rvars, fvars, uvars, dvars, pvars>>

\* a plausible slip: a timeout is answered by listening once more
ScanFinish_retry ==
    /\ sc_pc = "received"
    /\ IF sc_recv.kind = "timeout" /\ sc_recvs < 2
       THEN /\ sc_pc' = "bound"
            /\ UNCHANGED <<sc_result, sc_sink, sc_connects>>
       ELSE LET r == clientScan(sc_report, sc_recv)
            IN  /\ sc_result' = r
                /\ sc_sink' = sc_sink \o r.delivered
                /\ sc_connects' = (r.raised = NoExc /\ AddressUsable(r.address))
                /\ sc_pc' = "done"
    /\ UNCHANGED <<sc_report, sc_recv, sc_recvs, sc_calls, bvars, cvars, rvars,
                   fvars, uvars, dvars, pvars>>

\* lines 178-187: the result is returned or the timeout handled; a caller then
\* applies the test of line 203 to a returned address
ScanFinish ==
    /\ sc_pc = "received"
    /\ LET r == clientScan(sc_report, sc_recv)
       IN  /\ sc_result' = r
           /\ sc_sink' = sc_sink \o r.delivered
           /\ sc_connects' = (r.raised = NoExc /\ AddressUsable(r.address))
           /\ sc_pc' = "done"
    /\ UNCHANGED <<sc_report, sc_recv, sc_recvs, sc_calls, bvars, cvars, rvars,
                   fvars, uvars, dvars, pvars>>

(* ------------------------- frame dispatch ----------------------------- *)

\* frames of the job
NFrames == 3
\* workers asking for frames
NWorkers == 2

\* frame status (lines 48-51)
FRAME_QUEUED == 0
FRAME_DISPATCHED == 1
FRAME_DONE == 2
FRAME_ERROR == 3

Frames == 1..NFrames
Workers == 1..NWorkers

\* a job whose frames are all QUEUED, nothing dispatched
FramesInit ==
    /\ fr_status = [f \in Frames |-> FRAME_QUEUED]
    /\ fr_leases = [w \in Workers |-> {}]

\* a plausible slip: the frame is chosen without checking that it is still QUEUED
Dispatch_unchecked(w) ==
    \E f \in Frames :
        /\ fr_status[f] \in {FRAME_QUEUED, FRAME_DISPATCHED}
        /\ fr_status' = [fr_status EXCEPT ![f] = FRAME_DISPATCHED]
        /\ fr_leases' = [fr_leases EXCEPT ![w] = @ \cup {f}]
        /\ UNCHANGED <<bvars, cvars, rvars, svars, uvars, dvars, pvars>>

\* a dispatch request of worker w: one QUEUED frame is selected and becomes
\* DISPATCHED, leased to w, in one step
Dispatch(w) ==
    \E f \in Frames :
        /\ fr_status[f] = FRAME_QUEUED
        /\ fr_status' = [fr_status EXCEPT ![f] = FRAME_DISPATCHED]
        /\ fr_leases' = [fr_leases EXCEPT ![w] = @ \cup {f}]
        /\ UNCHANGED <<bvars, cvars, rvars, svars, uvars, dvars, pvars>>

\* worker w reports frame f rendered (DISPATCHED -> DONE) or failed (-> ERROR)
Report(w) ==
    \E f \in fr_leases[w], st \in {FRAME_DONE, FRAME_ERROR} :
        /\ fr_status' = [fr_status EXCEPT ![f] = st]
        /\ fr_leases' = [fr_leases EXCEPT ![w] = @ \ {f}]
        /\ UNCHANGED <<bvars, cvars, rvars, svars, uvars, dvars, pvars>>

\* the lease of worker w on frame f expires (DISPATCHED -> QUEUED)
Expire(w) ==
    \E f \in fr_leases[w] :
        /\ fr_status' = [fr_status EXCEPT ![f] = FRAME_QUEUED]
        /\ fr_leases' = [fr_leases EXCEPT ![w] = @ \ {f}]
        /\ UNCHANGED <<bvars, cvars, rvars, svars, uvars, dvars, pvars>>

\* the operator queues a failed frame again (ERROR -> QUEUED)
Retry ==
    \E f \in Frames :
        /\ fr_status[f] = FRAME_ERROR
        /\ fr_status' = [fr_status EXCEPT ![f] = FRAME_QUEUED]
        /\ UNCHANGED <<fr_leases, bvars, cvars, rvars, svars, uvars, dvars, pvars>>

(* --------------------------- URL templates ---------------------------- *)

\* longest job id tried
MaxIdLen == 2
\* frame numbers / file indices -1..MaxIndex are tried, and 11
MaxIndex == 1

\* characters of job ids: the separator of the templates and a digit
IdChars == {"_", "1"}
JobIds == UNION {[1..n -> IdChars] : n \in 0..MaxIdLen}
Indices == (-1..MaxIndex) \cup {11}

Digit(d) == <<"0", "1", "2", "3", "4", "5", "6", "7", "8", "9">>[d + 1]

RECURSIVE Decimal(_)
\* the decimal digits of n >= 0
Decimal(n) == IF n < 10 THEN <<Digit(n)>>
              ELSE Decimal(n \div 10) \o <<Digit(n % 10)>>

\* "%i" % n
FormatInt(n) == IF n < 0 THEN <<"-">> \o Decimal(-n) ELSE Decimal(n)

\* the literal parts of the templates
FILE_ == <<"/", "f", "i", "l", "e", "_">>
LOG_ == <<"/", "l", "o", "g", "_">>
RESULT_ == <<"/", "r", "e", "s", "u", "l", "t", "_">>
RENDER_ == <<"/", "r", "e", "n", "d", "e", "r", "_">>
CANCEL_ == <<"/", "c", "a", "n", "c", "e", "l", "_">>
DOTLOG == <<".", "l", "o", "g">>
DOTZIP == <<".", "z", "i", "p">>
DOTEXR == <<".", "e", "x", "r">>

\* a plausible slip: the separator between job id and index is left out
fileURL_nosep(job_id, file_index) ==
    FILE_ \o job_id \o FormatInt(file_index)

\* fileURL (lines 246-247): "/file_%s_%i"
fileURL(job_id, file_index) ==
    FILE_ \o job_id \o <<"_">> \o FormatInt(file_index)

\* logURL (lines 249-250): "/log_%s_%i.log"
logURL(job_id, frame_number) ==
    LOG_ \o job_id \o <<"_">> \o FormatInt(frame_number) \o DOTLOG

\* resultURL (lines 252-253): "/result_%s.zip"
resultURL(job_id) == RESULT_ \o job_id \o DOTZIP

\* renderURL (lines 255-256): "/render_%s_%i.exr"
renderURL(job_id, frame_number) ==
    RENDER_ \o job_id \o <<"_">> \o FormatInt(frame_number) \o DOTEXR

\* cancelURL (lines 258-259): "/cancel_%s"
cancelURL(job_id) == CANCEL_ \o job_id

URLInit == url_calls = <<>>

\* the calls made, with one more
Called(template, job_id, index, url) ==
    Append(url_calls, [template |-> template, job_id |-> job_id, index |-> index,
                       url |-> url])

\* a call of fileURL; two calls are compared
FileURL ==
    /\ Len(url_calls) < 2
    /\ \E j \in JobIds, n \in Indices :
          url_calls' = Called("file", j, n, fileURL(j, n))
    /\ UNCHANGED <<bvars, cvars, rvars, svars, fvars, dvars, pvars>>

\* a call of logURL; two calls are compared
LogURL ==
    /\ Len(url_calls) < 2
    /\ \E j \in JobIds, n \in Indices :
          url_calls' = Called("log", j, n, logURL(j, n))
    /\ UNCHANGED <<bvars, cvars, rvars, svars, fvars, dvars, pvars>>

\* a call of resultURL; two calls are compared
ResultURL ==
    /\ Len(url_calls) < 2
    /\ \E j \in JobIds : url_calls' = Called("result", j, 0, resultURL(j))
    /\ UNCHANGED <<bvars, cvars, rvars, svars, fvars, dvars, pvars>>

\* a call of renderURL; two calls are compared
RenderURL ==
    /\ Len(url_calls) < 2
    /\ \E j \in JobIds, n \in Indices :
          url_calls' = Called("render", j, n, renderURL(j, n))
    /\ UNCHANGED <<bvars, cvars, rvars, svars, fvars, dvars, pvars>>

\* a call of cancelURL; two calls are compared
CancelURL ==
    /\ Len(url_calls) < 2
    /\ \E j \in JobIds : url_calls' = Called("cancel", j, 0, cancelURL(j))
    /\ UNCHANGED <<bvars, cvars, rvars, svars, fvars, dvars, pvars>>

(* -------------------------- DirectoryContext -------------------------- *)

\* DirectoryContext objects in use
NCtx == 2
\* deepest nesting of `with` blocks followed
MaxNest == 3

Ctxs == 1..NCtx

\* existing directories, as absolute paths
Dirs == {"/", "/a", "/b"}

\* no block has been left by the last step
NoExit == [obj |-> 0, entry |-> "", reentered |-> FALSE, kind |-> "none"]

\* DirectoryContext(path) (lines 115-116) for each object; no block entered
DirInit ==
    /\ cwd \in Dirs
    /\ dc_path \in [Ctxs -> Dirs]
    /\ dc_curdir = [o \in Ctxs |-> ""]
    /\ dc_stack = <<>>
    /\ dc_exited = NoExit

DirIdle ==
    /\ cwd = "/"
    /\ dc_path = [o \in Ctxs |-> "/"]
    /\ dc_curdir = [o \in Ctxs |-> ""]
    /\ dc_stack = <<>>
    /\ dc_exited = NoExit

\* __enter__ (lines 118-120) of object o, at the top level or inside a block (of
\* another object or of o itself)
DirEnter(o) ==
    /\ Len(dc_stack) < MaxNest
    /\ dc_curdir' = [dc_curdir EXCEPT ![o] = cwd]
    /\ cwd' = dc_path[o]
    /\ dc_stack' = Append([k \in 1..Len(dc_stack) |->
                              IF dc_stack[k].obj = o
                              THEN [dc_stack[k] EXCEPT !.reentered = TRUE]
                              ELSE dc_stack[k]],
                          [obj |-> o, entry |-> cwd, reentered |-> FALSE])
    /\ dc_exited' = NoExit
    /\ UNCHANGED <<dc_path, bvars, cvars, rvars, svars, fvars, uvars, pvars>>

\* the body of a block changes the working directory itself
DirBodyChdir ==
    /\ Len(dc_stack) > 0
    /\ \E d \in Dirs \ {cwd} : cwd' = d
    /\ dc_exited' = NoExit
    /\ UNCHANGED <<dc_path, dc_curdir, dc_stack, bvars, cvars, rvars, svars, fvars,
                   uvars, pvars>>

\* __exit__ (lines 122-123) of the innermost block, left normally or by an
\* exception
DirExit ==
    /\ Len(dc_stack) > 0
    /\ \E kind \in {"normal", "exception"} :
          LET top == dc_stack[Len(dc_stack)]
          IN  /\ cwd' = dc_curdir[top.obj]
              /\ dc_exited' = [obj |-> top.obj, entry |-> top.entry,
                               reentered |-> top.reentered, kind |-> kind]
    /\ dc_stack' = SubSeq(dc_stack, 1, Len(dc_stack) - 1)
    /\ UNCHANGED <<dc_path, dc_curdir, bvars, cvars, rvars, svars, fvars, uvars,
                   pvars>>

(* ------------------------------ prefixPath ------------------------------ *)

\* Paths are sequences of one-character strings.  The os.path functions are
\* those of the host flavour: posixpath or ntpath.  The inputs hold no "." or
\* ".." component and no UNC start, so the parts of normpath, splitdrive and join
\* that deal with them are left out.

\* most components in a file_path
MaxDepth == 4
\* most prefixPath calls followed
MaxPathCalls == 2

Hosts == {"posix", "nt"}

\* directory names; "d" is also the name of the prefix directory
Names == {"a", "d"}

\* os.sep and the separators the flavour recognises (os.sep, os.altsep)
sep(host) == IF host = "nt" THEN "\\" ELSE "/"
Seps(host) == IF host = "nt" THEN {"/", "\\"} ELSE {"/"}

\* s.startswith(prefix)
startswith(s, prefix) ==
    Len(prefix) <= Len(s) /\ SubSeq(s, 1, Len(prefix)) = prefix

\* s[k:]
Slice(s, k) == SubSeq(s, k + 1, Len(s))

\* s.rstrip(separators)
rstrip(host, s) ==
    LET keep == {k \in 1..Len(s) : s[k] \notin Seps(host)}
    IN  IF keep = {} THEN <<>>
        ELSE SubSeq(s, 1, CHOOSE k \in keep : \A j \in keep : j <= k)

\* os.path.splitdrive: ntpath takes a letter and a colon, posixpath nothing
splitdrive(host, p) ==
    IF host = "nt" /\ Len(p) >= 2 /\ p[2] = ":"
    THEN <<SubSeq(p, 1, 2), Slice(p, 2)>>
    ELSE <<<<>>, p>>

\* os.path.isabs
isabs(host, p) ==
    LET rest == splitdrive(host, p)[2]
    IN  Len(rest) > 0 /\ rest[1] \in Seps(host)

\* the components of s: its maximal runs free of separators
RECURSIVE Components(_, _)
Components(host, s) ==
    IF s = <<>> THEN <<>>
    ELSE IF s[1] \in Seps(host) THEN Components(host, Tail(s))
    ELSE LET stops == {k \in 1..Len(s) : s[k] \in Seps(host)}
             n == IF stops = {} THEN Len(s) + 1
                  ELSE CHOOSE k \in stops : \A j \in stops : k <= j
         IN  <<SubSeq(s, 1, n - 1)>> \o Components(host, SubSeq(s, n, Len(s)))

\* c.join(comps)
RECURSIVE JoinWith(_, _)
JoinWith(c, comps) ==
    IF comps = <<>> THEN <<>>
    ELSE IF Len(comps) = 1 THEN comps[1]
    ELSE comps[1] \o <<c>> \o JoinWith(c, Tail(comps))

\* os.path.normpath: separators collapsed and, on nt, turned into backslashes;
\* posixpath keeps exactly two leading slashes
normpath(host, path) ==
    LET dr    == splitdrive(host, path)
        rest  == dr[2]
        comps == Components(host, rest)
        root  == IF host = "nt"
                 THEN IF rest # <<>> /\ rest[1] \in Seps(host)
                      THEN <<"\\">> ELSE <<>>
                 ELSE IF startswith(rest, <<"/", "/">>)
                         /\ ~startswith(rest, <<"/", "/", "/">>)
                      THEN <<"/", "/">>
                      ELSE IF startswith(rest, <<"/">>) THEN <<"/">> ELSE <<>>
        out   == dr[1] \o root \o JoinWith(sep(host), comps)
    IN  IF out = <<>> THEN <<".">> ELSE out

\* os.path.split: (head, tail) around the last separator
split(host, p) ==
    LET dr    == splitdrive(host, p)
        rest  == dr[2]
        stops == {k \in 1..Len(rest) : rest[k] \in Seps(host)}
        cut   == IF stops = {} THEN 0
                 ELSE CHOOSE k \in stops : \A j \in stops : j <= k
        head  == SubSeq(rest, 1, cut)
    IN  <<dr[1] \o (IF rstrip(host, head) = <<>> THEN head ELSE rstrip(host, head)),
          Slice(rest, cut)>>

\* os.path.join of two paths
join(host, a, b) ==
    LET da == splitdrive(host, a)
        db == splitdrive(host, b)
    IN  IF db[2] # <<>> /\ db[2][1] \in Seps(host)
        THEN (IF db[1] # <<>> \/ da[1] = <<>> THEN db[1] ELSE da[1]) \o db[2]
        ELSE IF db[1] # <<>> /\ db[1] # da[1]
        THEN b
        ELSE da[1]
             \o (IF da[2] # <<>> /\ da[2][Len(da[2])] \notin Seps(host)
                 THEN da[2] \o <<sep(host)>> ELSE da[2])
             \o db[2]

\* os.getcwd() during the calls: the root
getcwd(host) == IF host = "nt" THEN <<"C", ":", "\\">> ELSE <<"/">>

\* os.path.abspath
abspath(host, p) == normpath(host, join(host, getcwd(host), p))

\* the directories above an absolute normalised path
RECURSIVE Ancestors(_, _)
Ancestors(host, path) ==
    LET head == split(host, path)[1]
    IN  IF head = path \/ head = <<>> THEN {}
        ELSE {head} \cup Ancestors(host, head)

\* os.path.exists; the empty path names nothing
exists(host, dirs, files, p) ==
    p # <<>> /\ abspath(host, p) \in dirs \cup files

\* os.mkdir creates one directory and needs its parent: the directories
\* afterwards, or the exception
mkdir(host, dirs, files, d) ==
    LET target == abspath(host, d)
        parent == split(host, target)[1]
    IN  IF target \in dirs \cup files
        THEN [raised |-> "FileExistsError", dirs |-> dirs]
        ELSE IF parent \in files
        THEN [raised |-> "NotADirectoryError", dirs |-> dirs]
        ELSE IF parent \notin dirs
        THEN [raised |-> "FileNotFoundError", dirs |-> dirs]
        ELSE [raised |-> "", dirs |-> dirs \cup {target}]

\* the test of lines 312-314
IsAbsolute(host, file_path) ==
    \/ isabs(host, file_path)
    \/ /\ Len(file_path) >= 3
       /\ SubSeq(file_path, 2, 3) \in {<<":", "/">>, <<":", "\\">>}
    \/ file_path[1] = "/"
    \/ file_path[1] = "\\"

\* a plausible slip: the existence test without its `not`
Remaps_existing(host, dirs, files, file_path, force) ==
    force \/ exists(host, dirs, files, file_path)

\* the test of line 316: an absolute path is remapped when forced or not found
Remaps(host, dirs, files, file_path, force) ==
    force \/ ~exists(host, dirs, files, file_path)

\* prefixPath (lines 311-334): what it returns or raises, the branch it took, the
\* directory it placed the file in, the directories that exist afterwards and
\* whether it created one
prefixPath(host, dirs, files, prefix_directory, file_path, prefix_path, force) ==
    LET out(branch, raised, full_path, directory, dirs2) ==
            [branch |-> branch, raised |-> raised, full_path |-> full_path,
             directory |-> directory, dirs |-> dirs2, created |-> dirs2 # dirs,
             existed |-> exists(host, dirs, files, file_path)]
    IN
    IF file_path = <<>>
    THEN \* isabs("") is false, len("") < 3, and file_path[0] raises
         out("none", "IndexError", <<>>, <<>>, dirs)
    ELSE IF IsAbsolute(host, file_path)
    THEN IF Remaps(host, dirs, files, file_path, force)
         THEN LET pn == split(host, normpath(host, file_path))
                  p  == pn[1]
                  n  == pn[2]
              IN  IF prefix_path # <<>> /\ startswith(p, prefix_path)
                  THEN IF Len(prefix_path) < Len(p)
                       THEN LET directory ==
                                    join(host, prefix_directory,
                                         Slice(p, Len(prefix_path) + 1))
                                made == mkdir(host, dirs, files, directory)
                            IN  IF ~exists(host, dirs, files, directory)
                                THEN IF made.raised # ""
                                     THEN out("prefix", made.raised, <<>>,
                                              directory, dirs)
                                     ELSE out("prefix", "",
                                              join(host, directory, n),
                                              directory, made.dirs)
                                ELSE out("prefix", "", join(host, directory, n),
                                         directory, dirs)
                       ELSE out("prefix", "", join(host, prefix_directory, n),
                                prefix_directory, dirs)
                  ELSE out("flat", "", join(host, prefix_directory, n),
                           prefix_directory, dirs)
         ELSE out("kept", "", file_path, <<>>, dirs)
    ELSE out("relative", "", join(host, prefix_directory, file_path),
             prefix_directory, dirs)

\* the spellings of the file paths given: the separator, and the starts that go
\* with it (relative, rooted, with a drive, relative to a drive)
Styles ==
    { [sepc |-> "/",
       roots |-> {<<>>, <<"/">>, <<"C", ":", "/">>, <<"C", ":">>}],
      [sepc |-> "\\",
       roots |-> {<<>>, <<"\\">>, <<"C", ":", "\\">>}] }

\* the file paths given: the empty one, and a start followed by up to
\* MaxDepth - 1 directory names and the file name "a"
FilePaths ==
    {<<>>} \cup
    UNION { { r \o JoinWith(st.sepc, [k \in DOMAIN c |-> <<c[k]>>] \o <<<<"a">>>>) :
                r \in st.roots,
                c \in UNION {[1..n -> Names] : n \in 0..(MaxDepth - 1)} } :
            st \in Styles }

\* the prefix directories given: absolute and relative to the working directory
PrefixDirectories == {<<"/", "d">>, <<"d">>}

\* the prefix paths given: none, a directory in either spelling, with a trailing
\* separator, and the root
PrefixPaths == {<<>>, <<"/", "a">>, <<"\\", "a">>, <<"/", "a", "/">>, <<"/">>}

PathArgs ==
    [prefix_directory : PrefixDirectories, file_path : FilePaths,
     prefix_path : PrefixPaths, force : BOOLEAN]

\* before the first call: the prefix directory exists, its subdirectory "a" may,
\* and the file named by file_path may exist locally
PathInit ==
    /\ pp_host \in Hosts
    /\ pp_args \in PathArgs
    /\ \E sub \in BOOLEAN, local \in BOOLEAN :
          LET pd   == abspath(pp_host, pp_args.prefix_directory)
              pda  == abspath(pp_host, join(pp_host, pp_args.prefix_directory,
                                            <<"a">>))
              fp   == abspath(pp_host, pp_args.file_path)
              base == {pd} \cup Ancestors(pp_host, pd)
                      \cup (IF sub THEN {pda} ELSE {})
                      \cup (IF local /\ pp_args.file_path # <<>>
                            THEN Ancestors(pp_host, fp) ELSE {})
          IN  /\ pp_dirs = base \cup {getcwd(pp_host)}
              /\ pp_files = IF local /\ pp_args.file_path # <<>> /\ fp \notin base
                               /\ fp # getcwd(pp_host)
                            THEN {fp} ELSE {}
    /\ pp_calls = <<>>
    /\ pp_made = FALSE

PathIdle ==
    /\ pp_host = "posix"
    /\ pp_args = [prefix_directory |-> <<"/", "d">>, file_path |-> <<"a">>,
                  prefix_path |-> <<>>, force |-> FALSE]
    /\ pp_dirs = {<<"/">>, <<"/", "d">>}
    /\ pp_files = {}
    /\ pp_calls = <<>>
    /\ pp_made = FALSE

\* a call prefixPath(prefix_directory, file_path, prefix_path, force)
PrefixPath ==
    /\ Len(pp_calls) < MaxPathCalls
    /\ LET r == prefixPath(pp_host, pp_dirs, pp_files, pp_args.prefix_directory,
                           pp_args.file_path, pp_args.prefix_path, pp_args.force)
       IN  /\ pp_calls' = Append(pp_calls, r)
           /\ pp_dirs' = r.dirs
    /\ UNCHANGED <<pp_host, pp_args, pp_files, pp_made, bvars, cvars, rvars, svars,
                   fvars, uvars, dvars>>

\* the caller writes the file at the path the first call returned (its directory
\* exists)
Materialize ==
    /\ Len(pp_calls) = 1
    /\ pp_calls[1].raised = ""
    /\ ~pp_made
    /\ LET target == abspath(pp_host, pp_calls[1].full_path)
       IN  /\ split(pp_host, target)[1] \in pp_dirs
           /\ target \notin pp_dirs
           /\ pp_files' = pp_files \cup {target}
    /\ pp_made' = TRUE
    /\ UNCHANGED <<pp_host, pp_args, pp_dirs, pp_calls, bvars, cvars, rvars, svars,
                   fvars, uvars, dvars>>

\* the components not under study
OtherIdle == ScanIdle /\ FramesInit /\ URLInit /\ DirIdle /\ PathIdle

\* a plausible slip: the `scan` argument is not consulted
Start_ignores_scan(t) ==
    /\ t \in threads
    /\ th[t].pc = "call"
    /\ IF th[t].address = "[default]"
       THEN Set(t, [th[t] EXCEPT !.pc = "scan"])
       ELSE Set(t, [th[t] EXCEPT !.pc = "try"])
    /\ UNCHANGED <<system, defaulttimeout, default0, threads, bvars, rvars, xvars>>

\* lines 190-200, 205: read the settings; "[default]" needs discovery
Start(t) ==
    /\ t \in threads
    /\ th[t].pc = "call"
    /\ IF th[t].address = "[default]"
       THEN IF ~th[t].scan
            THEN Set(t, Return(th[t], "None"))
            ELSE Set(t, [th[t] EXCEPT !.pc = "scan"])
       ELSE Set(t, [th[t] EXCEPT !.pc = "try"])
    /\ UNCHANGED <<system, defaulttimeout, default0, threads, bvars, rvars, xvars>>

\* lines 202-204: `address, port = clientScan()`, called without the sink and
\* outside the try block
Scan(t) ==
    /\ t \in threads
    /\ th[t].pc = "scan"
    /\ \E recv \in Recvs :
          LET r == clientScan(FALSE, recv)
              s == [th[t] EXCEPT !.scans = @ + 1]
          IN  IF r.raised # NoExc
              THEN Set(t, Return([s EXCEPT !.exc = r.raised,
                                           !.failure = IF recv.kind = "timeout"
                                                       THEN "NoMasterFound"
                                                       ELSE "BadPacket"],
                                 "raised"))
              ELSE IF ~AddressUsable(r.address)
              THEN Set(t, Return([s EXCEPT !.address = r.address, !.port = r.port],
                                 "None"))
              ELSE Set(t, [s EXCEPT !.address = r.address, !.port = r.port,
                                    !.pc = "try"])
    /\ UNCHANGED <<system, defaulttimeout, default0, threads, bvars, rvars, xvars>>

\* lines 206-208, 211-212: enter the try block; off Darwin the connection object is
\* built with the caller's timeout (the constructor may raise, e.g. on a bad port)
Try(t) ==
    /\ t \in threads
    /\ th[t].pc = "try"
    /\ IF system = "Darwin"
       THEN Set(t, [th[t] EXCEPT !.pc = "ctx_init"])
       ELSE \E ok \in BOOLEAN :
               IF ok
               THEN Set(t, [th[t] EXCEPT !.conn = "created",
                                         !.conn_timeout = th[t].timeout,
                                         !.pc = "verify"])
               ELSE Set(t, [th[t] EXCEPT !.exc = [type |-> "InvalidURL",
                                                  message |-> "nonnumeric port"],
                                         !.failure = "ConnectionError",
                                         !.pc = "except"])
    /\ UNCHANGED <<system, defaulttimeout, default0, threads, bvars, rvars, xvars>>

\* line 209, lines 69-71: ConnectionContext(timeout) reads the current default
CtxInit(t) ==
    /\ t \in threads
    /\ th[t].pc = "ctx_init"
    /\ Set(t, [th[t] EXCEPT !.old_timeout = defaulttimeout,
                            !.ctx_timeout = th[t].timeout,
                            !.pc = "ctx_enter"])
    /\ UNCHANGED <<system, defaulttimeout, default0, threads, bvars, rvars, xvars>>

\* line 209, lines 73-75: __enter__
CtxEnter(t) ==
    /\ t \in threads
    /\ th[t].pc = "ctx_enter"
    /\ defaulttimeout' = ctx_enter(system, th[t].old_timeout, th[t].ctx_timeout,
                                   defaulttimeout)
    /\ Set(t, [th[t] EXCEPT !.pc = "ctx_body"])
    /\ UNCHANGED <<system, default0, threads, bvars, rvars, xvars>>

\* line 210: `conn = HTTPConnection(address, port)`: no timeout argument, nothing
\* is connected yet; the constructor may raise
Construct(t) ==
    /\ t \in threads
    /\ th[t].pc = "ctx_body"
    /\ \E ok \in BOOLEAN :
          IF ok
          THEN Set(t, [th[t] EXCEPT !.conn = "created",
                                    !.conn_timeout = GlobalDefault,
                                    !.pc = "ctx_exit"])
          ELSE Set(t, [th[t] EXCEPT !.exc = [type |-> "InvalidURL",
                                             message |-> "nonnumeric port"],
                                    !.failure = "ConnectionError",
                                    !.pc = "ctx_exit"])
    /\ UNCHANGED <<system, defaulttimeout, default0, threads, bvars, rvars, xvars>>

\* lines 76-78: __exit__, run on a normal and on an exceptional exit of the block;
\* then line 214 (a connection object is always true) or the except clause
CtxExit(t) ==
    /\ t \in threads
    /\ th[t].pc = "ctx_exit"
    /\ defaulttimeout' = ctx_exit(system, th[t].old_timeout, th[t].ctx_timeout,
                                  defaulttimeout)
    /\ Set(t, [th[t] EXCEPT !.pc = IF th[t].exc # NoExc THEN "except" ELSE "verify"])
    /\ UNCHANGED <<system, default0, threads, bvars, rvars, xvars>>

\* line 229, lines 69-71 / 82-83: clientVerifyVersion builds ConnectionContext()
VerifyInit(t) ==
    /\ t \in threads
    /\ th[t].pc = "verify"
    /\ Set(t, [th[t] EXCEPT !.old_timeout = IF system = "Darwin" THEN defaulttimeout
                                            ELSE @,
                            !.ctx_timeout = NoTimeout,
                            !.pc = "v_enter"])
    /\ UNCHANGED <<system, defaulttimeout, default0, threads, bvars, rvars, xvars>>

\* line 229: __enter__ of ConnectionContext()
VerifyEnter(t) ==
    /\ t \in threads
    /\ th[t].pc = "v_enter"
    /\ defaulttimeout' = ctx_enter(system, th[t].old_timeout, th[t].ctx_timeout,
                                   defaulttimeout)
    /\ Set(t, [th[t] EXCEPT !.pc = "v_request"])
    /\ UNCHANGED <<system, default0, threads, bvars, rvars, xvars>>

\* line 230: conn.request("GET", "/version") opens the transport connection (with
\* the connection's timeout, or the process-wide default of this moment) and sends
Request(t) ==
    /\ t \in threads
    /\ th[t].pc = "v_request"
    /\ \E ok \in BOOLEAN :
          IF ok
          THEN Set(t, [th[t] EXCEPT !.conn = "open",
                                    !.opens = @ + 1,
                                    !.sock_timeout =
                                        IF th[t].conn_timeout = GlobalDefault
                                        THEN defaulttimeout ELSE th[t].conn_timeout,
                                    !.pc = "v_exit"])
          ELSE Set(t, [th[t] EXCEPT !.exc = [type |-> "OSError",
                                             message |-> "connection refused"],
                                    !.failure = "ConnectionError",
                                    !.pc = "v_exit"])
    /\ UNCHANGED <<system, defaulttimeout, default0, threads, bvars, rvars, xvars>>

\* line 229: __exit__ of ConnectionContext(), on both exits of the block
VerifyExit(t) ==
    /\ t \in threads
    /\ th[t].pc = "v_exit"
    /\ defaulttimeout' = ctx_exit(system, th[t].old_timeout, th[t].ctx_timeout,
                                  defaulttimeout)
    /\ Set(t, [th[t] EXCEPT !.pc = IF th[t].exc # NoExc THEN "except"
                                   ELSE "v_response"])
    /\ UNCHANGED <<system, default0, threads, bvars, rvars, xvars>>

\* lines 231-235: conn.getresponse() fails, or gives a status; a status other than
\* OK closes the connection and fails the check
Response(t) ==
    /\ t \in threads
    /\ th[t].pc = "v_response"
    /\ \/ \E c \in {"open", "closed"} :
             Set(t, [th[t] EXCEPT !.exc = [type |-> "OSError", message |-> "timed out"],
                                  !.failure = "ConnectionError",
                                  !.conn = c,
                                  !.pc = "except"])
       \/ \E st \in {OK, NOT_FOUND} :
             IF st # OK
             THEN Set(t, [th[t] EXCEPT !.status = st,
                                       !.conn = "closed",
                                       !.verified = FALSE,
                                       !.failure = "VersionMismatch",
                                       !.pc = "after_verify"])
             ELSE Set(t, [th[t] EXCEPT !.status = st, !.pc = "v_read"])
    /\ UNCHANGED <<system, defaulttimeout, default0, threads, bvars, rvars, xvars>>

\* lines 237-244: read the body and compare it with VERSION; on a difference both
\* versions are decoded for the printed message before False is returned
Read(t) ==
    /\ t \in threads
    /\ th[t].pc = "v_read"
    /\ \E body \in Payloads :
          LET s == [th[t] EXCEPT !.server_version = body, !.read = TRUE]
          IN  IF body # VERSION
              THEN IF Utf8Decodable(body)
                   THEN Set(t, [s EXCEPT !.verified = FALSE,
                                         !.failure = "VersionMismatch",
                                         !.pc = "after_verify"])
                   ELSE Set(t, [s EXCEPT !.exc = [type |-> "UnicodeDecodeError",
                                                  message |-> "invalid start byte"],
                                         !.failure = "VersionMismatch",
                                         !.pc = "except"])
              ELSE Set(t, [s EXCEPT !.verified = TRUE, !.pc = "after_verify"])
    /\ UNCHANGED <<system, defaulttimeout, default0, threads, bvars, rvars, xvars>>

\* lines 215-219: return the verified connection; otherwise close it and report
\* (with a sink the function then ends, returning None)
AfterVerify(t) ==
    /\ t \in threads
    /\ th[t].pc = "after_verify"
    /\ IF th[t].verified
       THEN Set(t, Return(th[t], "conn"))
       ELSE LET r == reporting(th[t].report, "Incorrect master version", "ValueError")
                s == [th[t] EXCEPT !.conn = "closed", !.sink = @ \o r.delivered]
            IN  IF r.raised # NoExc
                THEN Set(t, [s EXCEPT !.exc = r.raised, !.pc = "except"])
                ELSE Set(t, Return(s, "None"))
    /\ UNCHANGED <<system, defaulttimeout, default0, threads, bvars, rvars, xvars>>

\* lines 220-226: `except BaseException`: the sink gets str(err), or it is printed;
\* None is returned either way
Except(t) ==
    /\ t \in threads
    /\ th[t].pc = "except"
    /\ IF th[t].report
       THEN Set(t, Return([th[t] EXCEPT !.sink = Append(@, <<{"ERROR"},
                                                            th[t].exc.message>>)],
                          "None"))
       ELSE Set(t, Return(th[t], "None"))
    /\ UNCHANGED <<system, defaulttimeout, default0, threads, bvars, rvars, xvars>>

(* --------------------------- specifications --------------------------- *)

vars == <<bvars, cvars, rvars, xvars>>

\* the backoff sleeper alone
Init == BackoffInit /\ ClientIdle /\ ReportIdle /\ OtherIdle
Next ==
    \/ Reset
    \/ Increase
    \/ SleepBegin
    \/ SleepUnit
    \/ SleepCheck
    \/ SleepLoopEnd
    \/ SleepExit
    \/ BreakSet
    \/ BreakClear
Spec == Init /\ [][Next]_vars

\* one caller of clientConnection
InitClient == BackoffIdle /\ ClientInit /\ ReportIdle /\ OtherIdle
NextClient ==
    \E t \in Threads :
        \/ Start(t)
        \/ Scan(t)
        \/ Try(t)
        \/ CtxInit(t)
        \/ CtxEnter(t)
        \/ Construct(t)
        \/ CtxExit(t)
        \/ VerifyInit(t)
        \/ VerifyEnter(t)
        \/ Request(t)
        \/ VerifyExit(t)
        \/ Response(t)
        \/ Read(t)
        \/ AfterVerify(t)
        \/ Except(t)
SpecClient == InitClient /\ [][NextClient]_vars

\* concurrent connection attempts on Darwin: the steps of the guarded attempt
\* (lines 206-212 and 228-231)
InitConc == BackoffIdle /\ ConcInit /\ ReportIdle /\ OtherIdle
NextConc ==
    \E t \in Threads :
        \/ Start(t)
        \/ Try(t)
        \/ CtxInit(t)
        \/ CtxEnter(t)
        \/ Construct(t)
        \/ CtxExit(t)
        \/ VerifyInit(t)
        \/ VerifyEnter(t)
        \/ Request(t)
        \/ VerifyExit(t)
SpecConc == InitConc /\ [][NextConc]_vars

\* reporting() on its own
InitReport == BackoffIdle /\ ClientIdle /\ ReportInit /\ OtherIdle
NextReport == ReportCall
SpecReport == InitReport /\ [][NextReport]_vars

(* ------------------------------- claims ------------------------------- *)

\* a method that changes current has completed
Touched == lastOp \in {"reset", "increase", "sleep"}

\* C1 as stated: for any non-negative increment, default_timeout and max_timeout,
\* after every reset() or increase() (those made by sleep() included)
\* default <= current <= max.
C1_AnyParameters ==
    Touched => (default <= current /\ current <= max)

\* C1, amended: when default_timeout <= max_timeout, after every reset() or
\* increase() (those made by sleep() included) default <= current <= max.
C1_DefaultCurrentMax ==
    (Touched /\ default <= max) => (default <= current /\ current <= max)

C1_Witness ==
    /\ lastOp = "sleep"
    /\ default < current
    /\ current < max
    /\ Len(run) >= 3

\* every increase() since the last reset() set current to min(current + increment, max)
IncreaseEffect ==
    \A k \in 2..Len(run) : run[k] = Min(run[k - 1] + increment, max)

\* no increase() since the last reset() left current above max
RunCapped == \A k \in 2..Len(run) : run[k] <= max

\* no increase() since the last reset() lowered current
RunMonotone == \A k \in 2..Len(run) : run[k] >= run[k - 1]

\* reset() returns current to default
ResetEffect == lastOp = "reset" => (current = default /\ run = <<default>>)

\* default=5, increment=5, max=20 yields 5, 10, 15, 20, 20, ...
ExampleRun ==
    (default = 5 /\ increment = 5 /\ max = 20)
        => \A k \in 1..Len(run) : run[k] = Min(5 * k, 20)

\* C2 as stated: increase() sets current to min(current + increment, max), reset()
\* sets it to default; along any run of increase() calls without reset() current
\* never decreases and never exceeds max (5, 10, 15, 20, 20 in the example).
C2_NeverDecreases ==
    /\ current = run[Len(run)]
    /\ IncreaseEffect
    /\ ResetEffect
    /\ ExampleRun
    /\ RunCapped
    /\ RunMonotone

\* C2, amended: as C2, with "never decreases" only when default <= max (a sleeper
\* built with default > max drops from default to max on its first increase()).
C2_Backoff ==
    /\ current = run[Len(run)]
    /\ IncreaseEffect
    /\ ResetEffect
    /\ ExampleRun
    /\ RunCapped
    /\ (default <= max => RunMonotone)

C2_Witness == run = <<5, 10, 15, 20, 20>>

\* C3: sleep() sleeps one unit at a time, at most range(current) units; it evaluates
\* the predicate after every unit; once an evaluation is true no further unit is
\* slept; at most one unit ends between the predicate becoming true and the return.
C3_BreakLatency ==
    /\ slept <= rng
    /\ late <= 1
    /\ (sawBreak => spc \in {"exit", "idle"})
    /\ (spc = "check" => checks + 1 = slept)
    /\ (spc \in {"loop", "exit"} => checks = slept)
    /\ ((spc = "idle" /\ lastOp = "sleep") => checks = slept)
    /\ ((spc = "idle" /\ lastOp = "sleep" /\ ~sawBreak) => slept = rng)

C3_Witness ==
    /\ spc = "idle"
    /\ lastOp = "sleep"
    /\ sawBreak
    /\ late = 1
    /\ slept >= 2
    /\ slept + 2 <= rng

\* sleep() has returned and nothing was called since
Slept == spc = "idle" /\ lastOp = "sleep"

\* exactly one increase() per sleep(), made on exit
IncreaseOnExit ==
    /\ (spc # "idle" => incs = 0)
    /\ (Slept => (incs = 1 /\ current = Min(rng + increment, max)))

\* a sleep() that directly follows a sleep() waits min(previous + increment, max)
NextInterval ==
    (spc # "idle" /\ prevRng # -1) => rng = Min(prevRng + increment, max)

\* a sleep() that directly follows a sleep() does not wait less
IntervalGrows ==
    (spc # "idle" /\ prevRng # -1) => rng >= prevRng

\* C4 as stated: every sleep() performs increase() exactly once, on exit, whether it
\* completed, was interrupted or current was 0; so consecutive sleep() calls without
\* reset() use intervals that grow by increment until they equal max.
C4_IntervalsGrow ==
    /\ IncreaseOnExit
    /\ NextInterval
    /\ IntervalGrows

\* C4, amended: as C4, the intervals growing only when default <= max (with
\* default > max the second interval is max, shorter than the first).
C4_IncreaseOnExit ==
    /\ IncreaseOnExit
    /\ NextInterval
    /\ (default <= max => IntervalGrows)

C4_Witness ==
    /\ Slept
    /\ sawBreak
    /\ slept < rng
    /\ prevRng # -1
    /\ prevRng < rng
    /\ rng < current

\* thread t is inside a `with ConnectionContext(...)` block
InGuard(t) == th[t].pc \in {"ctx_body", "ctx_exit", "v_request", "v_exit"}

\* C5: on Darwin, a single connection attempt leaves the process-wide default
\* timeout as it was before the attempt on every exit of a guarded block, an
\* exceptional exit included.
C5_TimeoutRestored ==
    system = "Darwin"
        => \A t \in threads : ~InGuard(t) => defaulttimeout = default0

C5_Witness ==
    /\ system = "Darwin"
    /\ th[1].pc = "except"
    /\ th[1].exc.type = "InvalidURL"
    /\ th[1].timeout # default0

\* thread t has left the guarded part of its attempt
AttemptOver(t) == th[t].pc \in {"v_response", "except", "done"}

\* C6: with concurrent attempts, inside its guarded block every attempt runs under
\* its own timeout, and once all attempts are over the process-wide default timeout
\* is what it was before any of them.
C6_CriticalSection ==
    /\ \A t \in threads : InGuard(t) => defaulttimeout = th[t].ctx_timeout
    /\ (\A t \in threads : AttemptOver(t)) => defaulttimeout = default0

\* the handshake of thread t got a response that must be rejected
Rejected(t) ==
    \/ th[t].status \notin {0, OK}
    \/ th[t].read /\ th[t].server_version # VERSION

\* C7: when the version-check response has a status other than OK or a body other
\* than VERSION, clientConnection returns no connection and has closed the
\* transport connection by the time it returns.
C7_HandshakeRejection ==
    \A t \in threads :
        (th[t].pc = "done" /\ Rejected(t))
            => (th[t].result # "conn" /\ th[t].conn = "closed")

Failures == {"NoMasterFound", "ConnectionError", "VersionMismatch"}

\* C8: without a sink every failure of clientConnection (discovery timeout,
\* transport failure, version mismatch) is raised to the caller.
C8_RaisedWithoutSink ==
    \A t \in threads :
        (th[t].pc = "done" /\ ~th[t].report /\ th[t].failure \in Failures)
            => th[t].result = "raised"

\* C9: with a sink clientConnection never raises: every failure reaches the sink as
\* an ERROR message and the call returns None.
C9_NeverRaisesWithSink ==
    \A t \in threads :
        (th[t].pc = "done" /\ th[t].report /\ th[t].failure \in Failures)
            => /\ th[t].result = "None"
               /\ Len(th[t].sink) >= 1
               /\ th[t].sink[Len(th[t].sink)][1] = {"ERROR"}

\* C10: with a sink, reporting() hands it exactly one (severity, message) pair,
\* ERROR when an error type is given and INFO otherwise, and returns; without a
\* sink, an error type is raised with the message and an informational call does
\* nothing.
C10_Reporting ==
    r_calls > 0 =>
        IF r_report
        THEN /\ r_sink = Append(r_before,
                                <<{IF r_errorType # NoError THEN "ERROR" ELSE "INFO"},
                                  r_message>>)
             /\ r_raised = NoExc
        ELSE /\ r_sink = r_before
             /\ r_raised = IF r_errorType # NoError
                           THEN [type |-> r_errorType, message |-> r_message]
                           ELSE NoExc

C10_Witness ==
    /\ r_calls = 2
    /\ r_report
    /\ r_errorType = "IOError"
    /\ r_sink = << <<{"INFO"}, "Master server found">>,
                   <<{"ERROR"}, "No master server on network">> >>

\* clientScan() on its own
InitScan == BackoffIdle /\ ClientIdle /\ ReportIdle /\ OtherIdle
NextScan ==
    \/ ScanCall
    \/ ScanRecv
    \/ ScanFinish
SpecScan == InitScan /\ [][NextScan]_vars

\* the master's frame dispatch
InitFrames == BackoffIdle /\ ClientIdle /\ ReportIdle /\ OtherIdle
NextFrames ==
    \/ \E w \in Workers : Dispatch(w)
    \/ \E w \in Workers : Report(w)
    \/ \E w \in Workers : Expire(w)
    \/ Retry
SpecFrames == InitFrames /\ [][NextFrames]_vars

\* the URL templates
InitURL == BackoffIdle /\ ClientIdle /\ ReportIdle /\ OtherIdle
NextURL ==
    \/ FileURL
    \/ LogURL
    \/ ResultURL
    \/ RenderURL
    \/ CancelURL
SpecURL == InitURL /\ [][NextURL]_vars

\* DirectoryContext blocks
InitDir == BackoffIdle /\ ClientIdle /\ ReportIdle /\ ScanIdle /\ FramesInit
           /\ URLInit /\ DirInit /\ PathIdle
NextDir ==
    \/ \E o \in Ctxs : DirEnter(o)
    \/ DirBodyChdir
    \/ DirExit
SpecDir == InitDir /\ [][NextDir]_vars

\* prefixPath calls
InitPath == BackoffIdle /\ ClientIdle /\ ReportIdle /\ ScanIdle /\ FramesInit
            /\ URLInit /\ DirIdle /\ PathInit
NextPath ==
    \/ PrefixPath
    \/ Materialize
SpecPath == InitPath /\ [][NextPath]_vars

\* C11: with address "[default]" and scanning disabled clientConnection returns
\* None without discovery, without a socket or connection and without a blocking
\* step; with scanning enabled discovery runs exactly once, before any transport
\* connection is attempted.
C11_ScanDisabled ==
    \A t \in threads :
        /\ (th[t].server_address = "[default]" /\ ~th[t].scan)
              => /\ th[t].scans = 0
                 /\ th[t].opens = 0
                 /\ th[t].conn = "none"
                 /\ th[t].pc \in {"call", "done"}
                 /\ (th[t].pc = "done" => th[t].result = "None")
        /\ (th[t].server_address = "[default]" /\ th[t].scan)
              => /\ th[t].scans <= 1
                 /\ (th[t].pc \notin {"call", "scan"} => th[t].scans = 1)
                 /\ ((th[t].conn # "none" \/ th[t].opens > 0) => th[t].scans = 1)

C11_Witness ==
    /\ th[1].server_address = "[default]"
    /\ ~th[1].scan
    /\ th[1].pc = "done"
    /\ th[1].result = "None"

\* C16: when the transport connection is really opened (the first request of the
\* handshake) the timeout in effect is the `timeout` argument of clientConnection,
\* on Darwin as on the other platforms.
C16_CallerTimeoutGoverns ==
    \A t \in threads : th[t].opens > 0 => th[t].sock_timeout = th[t].timeout

\* the handshake of thread t completed with status OK and a body equal to VERSION
HandshakeOK(t) ==
    th[t].status = OK /\ th[t].read /\ th[t].server_version = VERSION

\* C19: clientConnection returns a connection only after a handshake with status OK
\* and body VERSION; on every other path (scan disabled, discovery failure,
\* exception, mismatch) it returns None.
C19_OnlyVerified ==
    \A t \in threads :
        th[t].pc = "done"
            => /\ (th[t].result = "conn" => HandshakeOK(t))
               /\ (~HandshakeOK(t) => th[t].result = "None")

\* the datagram received carries a port in decimal digits
WellFormed(recv) ==
    recv.kind = "packet" /\ Utf8Decodable(recv.buf) /\ IsInt(recv.buf)

\* C12: clientScan makes exactly one bounded receive; a broadcast packet gives
\* (sender address, port parsed from the payload); a timeout gives the
\* no-master-found error (raised, or reported to the sink with the default result)
\* without a second receive, and a caller holding the default result (empty
\* address) does not go on to connect.
C12_SingleAttempt ==
    sc_pc = "done" =>
        /\ sc_recvs = 1
        /\ WellFormed(sc_recv)
              => /\ sc_result.raised = NoExc
                 /\ sc_result.address = sc_recv.address
                 /\ sc_result.port = IntOf(sc_recv.buf)
                 /\ sc_connects
        /\ (sc_recv.kind = "timeout" /\ ~sc_report)
              => sc_result.raised = [type |-> "IOError",
                                     message |-> "No master server on network"]
        /\ (sc_recv.kind = "timeout" /\ sc_report)
              => /\ sc_result.raised = NoExc
                 /\ sc_result.address = ""
                 /\ sc_result.port = DEFAULT_PORT
                 /\ Len(sc_sink) >= 1
                 /\ sc_sink[Len(sc_sink)] = <<{"ERROR"}, "No master server on network">>
        /\ (sc_result.raised = NoExc /\ sc_result.address = "") => ~sc_connects

C12_Witness ==
    /\ sc_pc = "done"
    /\ sc_recv.kind = "timeout"
    /\ sc_report
    /\ sc_result.address = ""
    /\ sc_calls = 2

\* the workers holding frame f
Holders(f) == {w \in Workers : f \in fr_leases[w]}

\* C13: under any interleaving of dispatch requests against a job of N frames, a
\* frame is DISPATCHED exactly while one worker holds it: never two workers for one
\* frame, and never more than N frames DISPATCHED at once.
C13_FrameExclusivity ==
    /\ \A f \in Frames :
          Cardinality(Holders(f)) = IF fr_status[f] = FRAME_DISPATCHED THEN 1 ELSE 0
    /\ Cardinality({f \in Frames : fr_status[f] = FRAME_DISPATCHED}) <= NFrames
    /\ Cardinality(UNION {fr_leases[w] : w \in Workers}) <= NFrames

C13_Witness ==
    /\ \A f \in Frames : fr_status[f] = FRAME_DISPATCHED
    /\ \A w \in Workers : fr_leases[w] # {}

\* C14: the URL templates are deterministic and collision-free: two calls return
\* the same URL exactly when they use the same template with the same job id and
\* the same frame number or file index.
C14_CollisionFree ==
    \A a, b \in 1..Len(url_calls) :
        (url_calls[a].url = url_calls[b].url)
            <=> /\ url_calls[a].template = url_calls[b].template
                /\ url_calls[a].job_id = url_calls[b].job_id
                /\ url_calls[a].index = url_calls[b].index

C14_Witness ==
    /\ Len(url_calls) = 2
    /\ url_calls[1] = [template |-> "file", job_id |-> <<"1">>, index |-> 11,
                       url |-> <<"/", "f", "i", "l", "e", "_", "1", "_", "1", "1">>]
    /\ url_calls[2] = [template |-> "file", job_id |-> <<"1", "1">>, index |-> 1,
                       url |-> <<"/", "f", "i", "l", "e", "_", "1", "1", "_", "1">>]

\* C20: when a `with DirectoryContext(path)` block is left, normally or by an
\* exception, the working directory is the one of the moment the block was
\* entered, also for nested blocks and for an object entered again in its own block.
C20_AlwaysRestored ==
    dc_exited.kind # "none" => cwd = dc_exited.entry

\* the path made of the given parts, each followed by the host's separator and
\* the next
Under(host, parts) == JoinWith(sep(host), parts)

\* C15 as stated: with force = false, once a first call has returned a path and
\* the file has been created there, a later call with the same arguments returns
\* the same path.
C15_SamePath ==
    (pp_made /\ ~pp_args.force) =>
        \A k \in 2..Len(pp_calls) :
            /\ pp_calls[k].raised = ""
            /\ pp_calls[k].full_path = pp_calls[1].full_path

\* C15, amended: with force = false, once a first call has returned a path and
\* the file has been created there, a later call with the same arguments returns
\* a path of the same file (the same absolute normalised path), possibly spelled
\* differently.
C15_SameFile ==
    (pp_made /\ ~pp_args.force) =>
        \A k \in 2..Len(pp_calls) :
            /\ pp_calls[k].raised = ""
            /\ abspath(pp_host, pp_calls[k].full_path)
                 = abspath(pp_host, pp_calls[1].full_path)

\* a first call that created a directory and remapped into it, the file written,
\* and a second call
C15_Witness ==
    /\ pp_made
    /\ ~pp_args.force
    /\ Len(pp_calls) = 2
    /\ pp_args.prefix_path = <<"/", "a">>
    /\ pp_calls[1].branch = "prefix"
    /\ pp_calls[1].created
    /\ pp_calls[2].branch = "prefix"
    /\ ~pp_calls[2].created
    /\ pp_calls[2].full_path = pp_calls[1].full_path

\* C17: when an absolute path is remapped and prefix_path is a non-empty prefix
\* of its parent directory, the result is prefix_directory, then the part of the
\* parent that follows prefix_path, then the file name; every directory of that
\* location exists afterwards, however many were missing; with nothing after
\* the prefix the file lies directly under prefix_directory.
C17_Reroot ==
    \A k \in 1..Len(pp_calls) :
        LET c      == pp_calls[k]
            pn     == split(pp_host, normpath(pp_host, pp_args.file_path))
            rest   == Components(pp_host, Slice(pn[1], Len(pp_args.prefix_path)))
            folder == Under(pp_host, <<pp_args.prefix_directory>> \o rest)
            here   == abspath(pp_host, folder)
        IN  c.branch = "prefix" =>
               /\ c.raised = ""
               /\ c.full_path = Under(pp_host, <<folder, pn[2]>>)
               /\ {here} \cup Ancestors(pp_host, here) \subseteq c.dirs

\* the start of a path that makes it absolute by its spelling alone
SyntacticallyAbsolute(file_path) ==
    /\ file_path # <<>>
    /\ \/ file_path[1] \in {"/", "\\"}
       \/ /\ Len(file_path) >= 3
          /\ file_path[2] = ":"
          /\ file_path[3] \in {"/", "\\"}

\* C18: absoluteness is decided by the spelling alone, the same on every host;
\* a relative file_path gives prefix_directory joined with file_path verbatim;
\* an absolute one that exists locally, force = false, is returned unchanged; an
\* absolute one with force = true or not existing locally is never returned
\* unchanged but placed under prefix_directory.
C18_Classification ==
    \A k \in 1..Len(pp_calls) :
        LET c      == pp_calls[k]
            fp     == pp_args.file_path
            pd     == pp_args.prefix_directory
            abs    == SyntacticallyAbsolute(fp)
        IN  /\ c.raised = ""
            /\ (c.branch = "relative") = ~abs
            /\ ~abs => c.full_path = Under(pp_host, <<pd, fp>>)
            /\ (abs /\ c.existed /\ ~pp_args.force) => c.full_path = fp
            /\ (abs /\ (pp_args.force \/ ~c.existed)) =>
                  /\ c.full_path # fp
                  /\ startswith(c.full_path, pd \o <<sep(pp_host)>>)

====
